---- MODULE Spec2Model ----
(***************************************************************************)
(* Ache-o-Meter: a Telegram bot that fetches weather, geomagnetic and      *)
(* solar-wind data, evaluates five risk rules and sends a summary on a     *)
(* schedule or on demand.                                                  *)
(*                                                                         *)
(* Three parts are modelled:                                               *)
(*   - forecast.analyze_data_and_form_message, a pure function of the      *)
(*     snapshot and of the wall clock (SpecAnalyze, SpecPressure);         *)
(*   - forecast.get_forecast_data, the asyncio.gather of the three         *)
(*     adapters, task by task (SpecAggregate);                             *)
(*   - bot.py and database.py: the users table, the settings dialogue,     *)
(*     /stop, /forecast_now and the hourly scheduler job (Spec), and the   *)
(*     dialogue with the table alone (SpecSub).                            *)
(*                                                                         *)
(* Python values are tagged records: [t |-> "num", v |-> n],               *)
(* [t |-> "none", v |-> 0], [t |-> "list", v |-> <<...>>]; a dict is a     *)
(* function from its keys.  An exception is the name of its class.         *)
(* Time is counted in whole hours for the analysis and in minutes since    *)
(* midnight UTC for the scheduler.                                         *)
(***************************************************************************)
EXTENDS Integers, Sequences, FiniteSets, TLC

VARIABLES
    \* ---- analyze_data_and_form_message
    snap,       \* the snapshot handed to the analysis (a dict)
    anow,       \* datetime.now() of the call, in hours
    ares,       \* the outcome of the call, or the idle record before it
    aprev,      \* the snapshot handed to the first call, and the call before this one
    \* ---- get_forecast_data
    tasks,      \* the three adapter coroutines gathered by one call
    gath,       \* the awaiting get_forecast_data: waiting, returned or raised
    \* ---- bot
    users,      \* the users table of data/users.db
    fsm,        \* aiogram's FSM context per user: state and stored data
    clock,      \* wall clock, minutes since midnight UTC
    sched,      \* the scheduler job scheduled_check_and_send
    req,        \* the /forecast_now handler of each user
    hist,       \* history: what the runs and the store operations did
    cmds        \* number of updates (messages, button presses) handled so far

avars == <<snap, anow, ares, aprev>>
gvars == <<tasks, gath>>
bvars == <<users, fsm, clock, sched, req, hist, cmds>>
vars == <<snap, anow, ares, aprev, tasks, gath, users, fsm, clock, sched, req, hist, cmds>>

(***************************************************************************)
(* Python values                                                           *)
(***************************************************************************)
PyNone == [t |-> "none", v |-> 0]
PyNum(n) == [t |-> "num", v |-> n]
PyList(s) == [t |-> "list", v |-> s]
PyDict(d) == [t |-> "dict", v |-> d]
\* A timestamp string, by what datetime.fromisoformat makes of it: an aware
\* datetime at hour h, a naive datetime at hour h, or a ValueError.
PyTime(fmt, h) == [t |-> "str", fmt |-> fmt, h |-> h]

EmptyDict == [k \in {} |-> PyNone]

Min(a, b) == IF a < b THEN a ELSE b
Abs(x) == IF x < 0 THEN -x ELSE x

RECURSIVE SumSeq(_)
SumSeq(s) == IF s = <<>> THEN 0 ELSE s[1].v + SumSeq(Tail(s))

RECURSIVE MaxSeq(_)
MaxSeq(s) == IF Len(s) = 1 THEN s[1].v
             ELSE LET m == MaxSeq(Tail(s)) IN IF s[1].v >= m THEN s[1].v ELSE m

RECURSIVE MinSeq(_)
MinSeq(s) == IF Len(s) = 1 THEN s[1].v
             ELSE LET m == MinSeq(Tail(s)) IN IF s[1].v <= m THEN s[1].v ELSE m

AllNum(s) == \A i \in 1..Len(s) : s[i].t = "num"

LastN(s, n) == SubSeq(s, Len(s) - n + 1, Len(s))

\* round() of the rational num/den, den > 0: to the nearest integer, a tie to
\* the even one, as Python's round does.
RoundDiv(num, den) ==
    LET a == Abs(num)
        q == a \div den
        r == a % den
        up == IF 2 * r > den THEN 1
              ELSE IF 2 * r < den THEN 0
              ELSE q % 2
        n == q + up
    IN  IF num < 0 THEN -n ELSE n

(***************************************************************************)
(* forecast.analyze_data_and_form_message: the five rules                  *)
(***************************************************************************)
\* Severity levels: "High" is the source's "Высокий", "Medium" its "Средний",
\* "Low" its "Низкий".
Raise(e) == [exc |-> e, risks |-> <<>>]
NoFinding == [exc |-> "none", risks |-> <<>>]
Found(level, rule, text, n) ==
    [exc |-> "none",
     risks |-> << [level |-> level, rule |-> rule, text |-> text, n |-> n] >>]

\* hpa_to_mmhg = 0.750062, in millionths.
HpaToMmHgMicro == 750062

\* [p for t, p in zip(times, vals) if lo <= datetime.fromisoformat(t) < hi],
\* where lo and hi are aware datetimes: the pairs are visited in order and the
\* first timestamp that cannot be parsed or compared ends the comprehension.
RECURSIVE WindowFrom(_, _, _, _, _)
WindowFrom(times, vals, i, lo, hi) ==
    IF i > Min(Len(times), Len(vals)) THEN [exc |-> "none", win |-> <<>>]
    ELSE LET tm == times[i] IN
         IF tm.t # "str" THEN [exc |-> "TypeError", win |-> <<>>]
         ELSE IF tm.fmt = "bad" THEN [exc |-> "ValueError", win |-> <<>>]
         ELSE IF tm.fmt = "naive" THEN [exc |-> "TypeError", win |-> <<>>]
         ELSE LET rest == WindowFrom(times, vals, i + 1, lo, hi) IN
              IF rest.exc # "none" THEN rest
              ELSE [exc |-> "none",
                    win |-> IF lo <= tm.h /\ tm.h < hi
                            THEN <<vals[i]>> \o rest.win ELSE rest.win]

Window(times, vals, lo, hi) == WindowFrom(times, vals, 1, lo, hi)

\* A classification that forgets abs().
PressureLevelSigned(change) ==
    IF change > 7 * 1000000 THEN "High"
    ELSE IF change > 3 * 1000000 THEN "Medium"
    ELSE "none"

\* The classification of the pressure change, given in millionths of mmHg.
PressureLevel(change) ==
    IF Abs(change) > 7 * 1000000 THEN "High"
    ELSE IF Abs(change) > 3 * 1000000 THEN "Medium"
    ELSE "none"

\* Lines 116 to 120: the finding for a pressure change.
PressureFinding(change, level) ==
    IF level = "High"
    THEN Found("High", "pressure", "very sharp pressure swing", RoundDiv(change, 1000000))
    ELSE IF level = "Medium"
    THEN Found("Medium", "pressure", "noticeable pressure swing", RoundDiv(change, 1000000))
    ELSE NoFinding

\* pressure_change = (max(future_pressures) - min(past_pressures)) * hpa_to_mmhg
PressureChange(past, future) == (MaxSeq(future) - MinSeq(past)) * HpaToMmHgMicro

\* Lines 112 to 120: from the two windows on.
PressureOfWindows(past, future) ==
    IF past.exc # "none" THEN Raise(past.exc)
    ELSE IF future.exc # "none" THEN Raise(future.exc)
    ELSE IF past.win = <<>> \/ future.win = <<>> THEN NoFinding
    ELSE IF ~AllNum(past.win \o future.win) THEN Raise("TypeError")
    ELSE PressureFinding(PressureChange(past.win, future.win),
                         PressureLevel(PressureChange(past.win, future.win)))

\* Rule 1: atmospheric pressure.
PressureRule(data, now) ==
    IF "hourly" \notin DOMAIN data THEN Raise("KeyError")
    ELSE LET hourly == data["hourly"] IN
    IF hourly.t # "dict" THEN Raise("TypeError")
    ELSE IF "surface_pressure" \notin DOMAIN hourly.v THEN Raise("KeyError")
    ELSE IF "time" \notin DOMAIN hourly.v THEN Raise("KeyError")
    ELSE LET hp == hourly.v["surface_pressure"]
             tm == hourly.v["time"] IN
    IF tm.t # "list" \/ hp.t # "list" THEN Raise("TypeError")
    ELSE PressureOfWindows(Window(tm.v, hp.v, now - 24, now),
                           Window(tm.v, hp.v, now, now + 24))

\* Rule 2: temperature swing between the first two daily maxima.
TemperatureRule(data) ==
    IF "daily" \notin DOMAIN data THEN Raise("KeyError")
    ELSE LET daily == data["daily"] IN
    IF daily.t # "dict" THEN Raise("TypeError")
    ELSE IF "temperature_2m_max" \notin DOMAIN daily.v THEN Raise("KeyError")
    ELSE LET mx == daily.v["temperature_2m_max"] IN
    IF mx.t # "list" THEN Raise("TypeError")
    ELSE IF Len(mx.v) < 2 THEN Raise("IndexError")
    ELSE IF mx.v[2].t # "num" \/ mx.v[1].t # "num" THEN Raise("TypeError")
    ELSE LET temp_diff == Abs(mx.v[2].v - mx.v[1].v) IN
         IF temp_diff > 10
         THEN Found("High", "temperature", "very sharp temperature change", temp_diff)
         ELSE IF temp_diff > 5
         THEN Found("Medium", "temperature", "noticeable temperature change", temp_diff)
         ELSE NoFinding

\* Lines 146 to 151: from the window on.  avg_humidity = sum / len, compared
\* without the division.
HumidityOfWindow(past) ==
    IF past.exc # "none" THEN Raise(past.exc)
    ELSE IF past.win = <<>> THEN NoFinding
    ELSE IF ~AllNum(past.win) THEN Raise("TypeError")
    ELSE IF SumSeq(past.win) > 85 * Len(past.win)
         THEN Found("Low", "humidity", "very high humidity", 0)
         ELSE IF SumSeq(past.win) < 30 * Len(past.win)
         THEN Found("Low", "humidity", "very low humidity", 0)
         ELSE NoFinding

\* Rule 3: mean humidity of the trailing 24 hours.
HumidityRule(data, now) ==
    IF "hourly" \notin DOMAIN data THEN Raise("KeyError")
    ELSE LET hourly == data["hourly"] IN
    IF hourly.t # "dict" THEN Raise("TypeError")
    ELSE IF "relative_humidity_2m" \notin DOMAIN hourly.v THEN Raise("KeyError")
    ELSE IF "time" \notin DOMAIN hourly.v THEN Raise("KeyError")
    ELSE LET hh == hourly.v["relative_humidity_2m"]
             tm == hourly.v["time"] IN
    IF tm.t # "list" \/ hh.t # "list" THEN Raise("TypeError")
    ELSE HumidityOfWindow(Window(tm.v, hh.v, now - 24, now))

\* The loop of rule 4 from row i on: Kp values are in tenths.
RECURSIVE GeoLoop(_, _, _, _)
GeoLoop(rows, i, future_limit, max_kp) ==
    IF i > Len(rows) THEN [exc |-> "none", max_kp |-> max_kp]
    ELSE LET tag == rows[i].time_tag IN
         IF tag.t # "str" THEN [exc |-> "AttributeError", max_kp |-> max_kp]
         ELSE IF tag.fmt = "bad" THEN [exc |-> "ValueError", max_kp |-> max_kp]
         ELSE IF tag.fmt = "naive" THEN [exc |-> "TypeError", max_kp |-> max_kp]
         ELSE IF tag.h < future_limit /\ rows[i].kp_value > max_kp
              THEN GeoLoop(rows, i + 1, future_limit, rows[i].kp_value)
              ELSE GeoLoop(rows, i + 1, future_limit, max_kp)

\* Lines 166 to 169: the finding for the largest Kp met.  int(max_kp) drops
\* the tenths.
GeoFinding(loop) ==
    IF loop.exc # "none" THEN Raise(loop.exc)
    ELSE IF loop.max_kp >= 50
    THEN Found("High", "geomagnetic", "magnetic storm expected", loop.max_kp \div 10)
    ELSE IF loop.max_kp >= 30
    THEN Found("Medium", "geomagnetic", "raised geomagnetic activity", loop.max_kp \div 10)
    ELSE NoFinding

\* Rule 4: geomagnetic activity.
GeoRule(data, now) ==
    IF "geo_forecast" \in DOMAIN data
    THEN GeoFinding(GeoLoop(data["geo_forecast"].v, 1, now + 24, 0))
    ELSE GeoFinding(GeoLoop(<<>>, 1, now + 24, 0))

\* Rule 5: solar wind.  recent_avg > historical_avg * 1.5 with
\* recent_avg = sum(last 12) / 12 and historical_avg = sum / len, compared
\* without the divisions.
SolarRule(data) ==
    LET solar_wind == IF "solar_wind_speed" \in DOMAIN data
                      THEN data["solar_wind_speed"] ELSE PyList(<<>>)
        s == solar_wind.v
    IN  IF s = <<>> THEN NoFinding
        ELSE IF ~AllNum(s) THEN Raise("TypeError")
        ELSE LET recent12 == IF Len(s) >= 12 THEN SumSeq(LastN(s, 12)) ELSE 0 IN
             IF 2 * recent12 * Len(s) > 3 * 12 * SumSeq(s)
             THEN Found("Low", "solar_activity", "solar wind strengthening", 0)
             ELSE NoFinding

Rules == <<"pressure", "temperature", "humidity", "geomagnetic", "solar_activity">>

RuleOutcome(rule, data, now) ==
    CASE rule = "pressure" -> PressureRule(data, now)
      [] rule = "temperature" -> TemperatureRule(data)
      [] rule = "humidity" -> HumidityRule(data, now)
      [] rule = "geomagnetic" -> GeoRule(data, now)
      [] rule = "solar_activity" -> SolarRule(data)

\* The except clause around each rule: (KeyError, IndexError, TypeError) for
\* the first three, Exception for the last two.
RuleCatches(rule, e) ==
    IF rule \in {"pressure", "temperature", "humidity"}
    THEN e \in {"KeyError", "IndexError", "TypeError"}
    ELSE TRUE

\* The rules from the i-th on, in the fixed order; an exception that a rule's
\* except clause does not name leaves the function at once.
RECURSIVE EvaluateFrom(_, _, _, _, _)
AfterRule(r, data, now, i, risks, reached) ==
    IF r.exc = "none" THEN EvaluateFrom(data, now, i + 1, risks \o r.risks, reached)
    ELSE IF RuleCatches(Rules[i], r.exc) THEN EvaluateFrom(data, now, i + 1, risks, reached)
    ELSE [exc |-> r.exc, risks |-> risks, reached |-> reached]

EvaluateFrom(data, now, i, risks, reached) ==
    IF i > Len(Rules) THEN [exc |-> "none", risks |-> risks, reached |-> reached]
    ELSE AfterRule(RuleOutcome(Rules[i], data, now), data, now, i, risks,
                   reached \cup {Rules[i]})

(***************************************************************************)
(* forecast.analyze_data_and_form_message: the message                     *)
(***************************************************************************)
RiskMap(level) ==
    CASE level = "High" -> 2
      [] level = "Medium" -> 1
      [] level = "Low" -> 0

\* x put into a list already sorted by descending RiskMap, behind every
\* element that does not rank below it.
RECURSIVE InsertRisk(_, _)
InsertRisk(x, sorted) ==
    IF sorted = <<>> THEN <<x>>
    ELSE IF RiskMap(Head(sorted).level) >= RiskMap(x.level)
         THEN <<Head(sorted)>> \o InsertRisk(x, Tail(sorted))
         ELSE <<x>> \o sorted

RECURSIVE SortFrom(_, _, _)
SortFrom(risks, i, sorted) ==
    IF i > Len(risks) THEN sorted
    ELSE SortFrom(risks, i + 1, InsertRisk(risks[i], sorted))

\* The same sort with equal keys reversed, as an unstable sort may leave them.
RECURSIVE InsertRiskBefore(_, _)
InsertRiskBefore(x, sorted) ==
    IF sorted = <<>> THEN <<x>>
    ELSE IF RiskMap(Head(sorted).level) > RiskMap(x.level)
         THEN <<Head(sorted)>> \o InsertRiskBefore(x, Tail(sorted))
         ELSE <<x>> \o sorted

RECURSIVE SortFromUnstable(_, _, _)
SortFromUnstable(risks, i, sorted) ==
    IF i > Len(risks) THEN sorted
    ELSE SortFromUnstable(risks, i + 1, InsertRiskBefore(risks[i], sorted))

SortRisksUnstable(risks) == SortFromUnstable(risks, 1, <<>>)

\* risks.sort(key=lambda x: risk_map[x[0]], reverse=True): list.sort is stable,
\* and with reverse=True equal keys keep their original order.
SortRisks(risks) == SortFrom(risks, 1, <<>>)

UnavailableMessage == [kind |-> "unavailable", title |-> "none", lines |-> <<>>]
NeutralMessage == [kind |-> "neutral", title |-> "none", lines |-> <<>>]
NoMessage == [kind |-> "none", title |-> "none", lines |-> <<>>]

\* The title and one line per sorted risk.  html.escape leaves the reasons as
\* they are: none of the templates or numbers holds &, <, > or a quote.
MessageOf(sorted) ==
    [kind |-> "report",
     title |-> sorted[1].level,
     lines |-> [i \in 1..Len(sorted) |->
                  [level |-> sorted[i].level, rule |-> sorted[i].rule,
                   text |-> sorted[i].text, n |-> sorted[i].n]]]

ComposeMessage(risks) ==
    IF risks = <<>> THEN NeutralMessage ELSE MessageOf(SortRisks(risks))

\* What the function gives after the rules: the message, or the exception
\* that left it.
AfterRules(ev) ==
    IF ev.exc # "none"
    THEN [exc |-> ev.exc, msg |-> NoMessage, risks |-> ev.risks, reached |-> ev.reached]
    ELSE [exc |-> "none", msg |-> ComposeMessage(ev.risks), risks |-> ev.risks,
          reached |-> ev.reached]

\* The whole function: what it returns, or the exception that leaves it.
analyze_data_and_form_message(data, now) ==
    IF DOMAIN data = {}
    THEN [exc |-> "none", msg |-> UnavailableMessage, risks |-> <<>>, reached |-> {}]
    ELSE AfterRules(EvaluateFrom(data, now, 1, <<>>, {}))

(***************************************************************************)
(* Inputs of the analysis                                                  *)
(***************************************************************************)
\* The longest hourly series drawn row by row.
MaxHourly == 3

\* datetime.now() of a call, in hours.
NowSamples == {30, 31}

Aware(h) == PyTime("aware", h)
Naive(h) == PyTime("naive", h)
BadTime == PyTime("bad", 0)

Nums(s) == PyList([i \in 1..Len(s) |-> PyNum(s[i])])
Rep(n, x) == [i \in 1..n |-> x]

\* The hourly series of Open-Meteo: the key may be missing, or hold null, or
\* a dict with some of time, surface_pressure and relative_humidity_2m.
TimeSamples ==
    { PyList(<<Aware(6), Aware(29), Aware(40)>>),
      PyList(<<Naive(6), Naive(29), Naive(40)>>),
      PyList(<<Aware(29), BadTime, Aware(40)>>),
      PyList(<<>>),
      PyNone }

PressureSamples ==
    { Nums(<<1000, 1008, 1016>>), Nums(<<1000, 1000, 1004>>),
      Nums(<<1000, 1000, 1000>>),
      PyList(<<PyNum(1000), PyNone, PyNum(1016)>>),
      PyNone }

HumiditySamples ==
    { Nums(<<90, 90, 90>>), Nums(<<20, 20, 20>>), Nums(<<50, 50, 50>>),
      PyList(<<PyNone, PyNone, PyNum(50)>>) }

HourlyDicts ==
    { [time |-> tm, surface_pressure |-> p, relative_humidity_2m |-> h] :
          tm \in TimeSamples, p \in PressureSamples, h \in HumiditySamples }
    \cup { [surface_pressure |-> p, relative_humidity_2m |-> h] :
               p \in {Nums(<<1000, 1008, 1016>>)}, h \in {Nums(<<90, 90, 90>>)} }
    \cup { [time |-> tm, relative_humidity_2m |-> h] :
               tm \in {PyList(<<Aware(6), Aware(29), Aware(40)>>)},
               h \in HumiditySamples }
    \cup { [time |-> tm, surface_pressure |-> p] :
               tm \in {PyList(<<Aware(6), Aware(29), Aware(40)>>)},
               p \in PressureSamples }

DailySamples ==
    { PyDict([temperature_2m_max |-> Nums(<<10, 21>>)]),
      PyDict([temperature_2m_max |-> Nums(<<10, 16>>)]),
      PyDict([temperature_2m_max |-> Nums(<<10, 14>>)]),
      PyDict([temperature_2m_max |-> Nums(<<10>>)]),
      PyDict([temperature_2m_max |-> PyList(<<PyNone, PyNum(21)>>)]),
      PyDict([temperature_2m_min |-> Nums(<<1, 2>>)]),
      PyNone }

GeoRow(tag, kp) == [time_tag |-> tag, kp_value |-> kp, observation_status |-> "predicted"]

\* geo_forecast as get_noaa_geo_data builds it: the time tags are the
\* provider's strings, the Kp values are floats (here in tenths).
GeoSamples ==
    { PyList(<<>>),
      PyList(<<GeoRow(Aware(35), 20), GeoRow(Aware(38), 50), GeoRow(Aware(41), 30)>>),
      PyList(<<GeoRow(Aware(35), 20), GeoRow(Aware(38), 47)>>),
      PyList(<<GeoRow(Aware(35), 20)>>),
      PyList(<<GeoRow(Aware(3), 60), GeoRow(Aware(35), 20)>>),
      PyList(<<GeoRow(Aware(35), 20), GeoRow(Aware(60), 60)>>),
      PyList(<<GeoRow(Naive(35), 50)>>),
      PyList(<<GeoRow(Aware(35), 50), GeoRow(BadTime, 20)>>) }

\* solar_wind_speed as get_solar_activity_data builds it: floats, oldest first.
SolarSamples ==
    { PyList(<<>>),
      PyList(Rep(13, PyNum(300)) \o Rep(12, PyNum(900))),
      PyList(Rep(14, PyNum(400))),
      PyList(Rep(3, PyNum(400))) }

\* A dict from the keys given: a missing key is simply not in the domain.
DictOf(keys, hourly, daily, geo, solar) ==
    [k \in keys |->
        CASE k = "hourly" -> hourly
          [] k = "daily" -> daily
          [] k = "geo_forecast" -> geo
          [] k = "solar_wind_speed" -> solar]

\* Weather part of a snapshot: the body of the Open-Meteo answer.
WeatherDicts ==
    { DictOf({"hourly", "daily"}, PyDict(h), d, PyNone, PyNone) :
          h \in HourlyDicts, d \in DailySamples }
    \cup { DictOf({"hourly", "daily"}, PyNone, d, PyNone, PyNone) : d \in DailySamples }
    \cup { DictOf({"daily"}, PyNone, d, PyNone, PyNone) : d \in DailySamples }
    \cup { DictOf({"hourly"}, PyDict(h), PyNone, PyNone, PyNone) : h \in HourlyDicts }
    \cup { EmptyDict }

Merge(a, b) == [k \in DOMAIN a \cup DOMAIN b |-> IF k \in DOMAIN b THEN b[k] ELSE a[k]]

GeoDicts == { [geo_forecast |-> g] : g \in GeoSamples } \cup { EmptyDict }
SolarDicts == { [solar_wind_speed |-> w] : w \in SolarSamples } \cup { EmptyDict }

\* The hourly rows of the pressure specification: (hour, hPa) pairs.
PressureHours == {6, 29, 30, 54}
PressureVals == {1000, 1004, 1008, 1016}

HourlyOfRows(rows) ==
    PyDict([time |-> PyList([i \in 1..Len(rows) |-> Aware(rows[i][1])]),
            surface_pressure |-> PyList([i \in 1..Len(rows) |-> PyNum(rows[i][2])])])

(***************************************************************************)
(* forecast.py: the three adapters                                         *)
(***************************************************************************)
\* What one HTTP request can end in, by the exception the try block meets:
\*   client_error  aiohttp.ClientError: no connection, a status raise_for_status
\*                 rejects, a socket timeout (ServerTimeoutError), a content
\*                 type json() rejects (ContentTypeError)
\*   timeout       asyncio.TimeoutError of the session's total timeout
\*   bad_json      json.JSONDecodeError: a 200 whose body is not JSON
\*   ok            a 200 with the JSON value body
Response(kind, body) == [kind |-> kind, body |-> body]

NumStr(n) == [t |-> "numstr", v |-> n]
BadStr == [t |-> "badstr", v |-> 0]
Sentinel == [t |-> "sentinel", v |-> 0]
Header == <<>>

Returned(val) == [st |-> "returned", val |-> val, exc |-> "none"]
Raised(e) == [st |-> "raised", val |-> PyDict(EmptyDict), exc |-> e]

\* The except clause of each adapter: aiohttp.ClientError only.
AdapterCatches(e) == e = "ClientError"

\* After the try block: a caught exception falls through to return {}.
AdapterExit(e) == IF AdapterCatches(e) THEN Returned(PyDict(EmptyDict)) ELSE Raised(e)

TransportError(resp) ==
    CASE resp.kind = "client_error" -> "ClientError"
      [] resp.kind = "timeout" -> "TimeoutError"
      [] resp.kind = "bad_json" -> "JSONDecodeError"
      [] OTHER -> "none"

\* float(cell)
FloatOf(cell) ==
    CASE cell.t = "numstr" -> [exc |-> "none", v |-> cell.v]
      [] cell.t = "num" -> [exc |-> "none", v |-> cell.v]
      [] cell.t = "none" -> [exc |-> "TypeError", v |-> 0]
      [] OTHER -> [exc |-> "ValueError", v |-> 0]

get_open_meteo_data(resp) ==
    IF resp.kind # "ok" THEN AdapterExit(TransportError(resp))
    ELSE Returned(resp.body)

\* The comprehension over data[1:] of get_noaa_geo_data, from row i on.
RECURSIVE GeoRowsFrom(_, _)
GeoRowsFrom(rows, i) ==
    IF i > Len(rows) THEN [exc |-> "none", out |-> <<>>]
    ELSE IF Len(rows[i]) < 3 THEN GeoRowsFrom(rows, i + 1)
    ELSE LET kp == FloatOf(rows[i][2]) IN
         IF kp.exc # "none" THEN [exc |-> kp.exc, out |-> <<>>]
         ELSE LET rest == GeoRowsFrom(rows, i + 1) IN
              IF rest.exc # "none" THEN rest
              ELSE [exc |-> "none",
                    out |-> << [time_tag |-> rows[i][1], kp_value |-> kp.v,
                                observation_status |-> rows[i][3]] >> \o rest.out]

get_noaa_geo_data(resp) ==
    IF resp.kind # "ok" THEN AdapterExit(TransportError(resp))
    ELSE IF resp.body.t # "list" THEN AdapterExit("TypeError")
    ELSE LET parsed == GeoRowsFrom(resp.body.v, 2) IN
         IF parsed.exc # "none" THEN AdapterExit(parsed.exc)
         ELSE Returned(PyDict([geo_forecast |-> PyList(parsed.out)]))

\* if len(item) > 1 and item[1] != '-9999.9'
SolarKeeps(item) == Len(item) > 1 /\ item[2].t # "sentinel"

\* [float(item[1]) for item in data[1:] if ...]: the first cell float()
\* rejects ends the comprehension.
SolarRows(rows) ==
    LET kept == SelectSeq(SubSeq(rows, 2, Len(rows)), SolarKeeps)
        bad == { i \in 1..Len(kept) : FloatOf(kept[i][2]).exc # "none" }
    IN  IF bad # {}
        THEN [exc |-> FloatOf(kept[CHOOSE i \in bad : \A j \in bad : i <= j][2]).exc,
              out |-> <<>>]
        ELSE [exc |-> "none", out |-> [i \in 1..Len(kept) |-> PyNum(FloatOf(kept[i][2]).v)]]

get_solar_activity_data(resp) ==
    IF resp.kind # "ok" THEN AdapterExit(TransportError(resp))
    ELSE IF resp.body.t # "list" THEN AdapterExit("TypeError")
    ELSE LET parsed == SolarRows(resp.body.v) IN
         IF parsed.exc # "none" THEN AdapterExit(parsed.exc)
         ELSE Returned(PyDict([solar_wind_speed |-> PyList(parsed.out)]))

\* return {**weather_data, **geo_data, **solar_data}: unpacking a value that
\* is no mapping is a TypeError.  The geo and solar adapters return dicts only.
MergeResults(w, g, s) ==
    IF w.t # "dict" THEN [st |-> "raised", exc |-> "TypeError", data |-> EmptyDict]
    ELSE [st |-> "returned", exc |-> "none", data |-> Merge(Merge(w.v, g.v), s.v)]

Adapters == {"open_meteo", "noaa_geo", "solar"}

(***************************************************************************)
(* Answers of the three providers                                          *)
(***************************************************************************)
GeoBodyOf(rows) ==
    PyList(<<Header>> \o [i \in 1..Len(rows) |->
                <<rows[i].time_tag, NumStr(rows[i].kp_value), rows[i].observation_status>>])

GeoBodies ==
    { GeoBodyOf(<<GeoRow(Aware(35), 20), GeoRow(Aware(38), 50)>>),
      GeoBodyOf(<<GeoRow(Naive(35), 50)>>),
      PyList(<<Header, <<Aware(35)>>, <<Aware(38), NumStr(20), "predicted">> >>),
      PyList(<<Header, <<Aware(35), BadStr, "predicted">> >>),
      PyList(<<Header, <<Aware(35), PyNone, "predicted">> >>),
      PyDict(EmptyDict) }

\* Thirteen older samples of 300 km/s and a last hour of 900 km/s.
SolarSurgeBody ==
    PyList(<<Header>> \o Rep(13, <<Aware(0), NumStr(300)>>)
                      \o Rep(12, <<Aware(0), NumStr(900)>>))

SolarBodies ==
    { SolarSurgeBody,
      PyList(<<Header, <<Aware(0), Sentinel>>, <<Aware(0), NumStr(400)>>, <<Aware(0)>> >>),
      PyList(<<Header, <<Aware(0), BadStr>> >>),
      PyDict(EmptyDict) }

HourlyBody(times, pressure, humidity) ==
    PyDict([time |-> PyList(times), surface_pressure |-> Nums(pressure),
            relative_humidity_2m |-> Nums(humidity)])

\* A full answer with timestamps that carry an offset.
WeatherBodyFull ==
    PyDict(DictOf({"hourly", "daily"},
                  HourlyBody(<<Aware(6), Aware(29), Aware(40)>>, <<1000, 1008, 1016>>,
                             <<90, 90, 90>>),
                  PyDict([temperature_2m_max |-> Nums(<<10, 16>>)]), PyNone, PyNone))

\* A full answer with local timestamps without offset, as timezone=auto gives.
WeatherBodyNaive ==
    PyDict(DictOf({"hourly", "daily"},
                  HourlyBody(<<Naive(6), Naive(29), Naive(40)>>, <<1000, 1000, 1000>>,
                             <<50, 50, 50>>),
                  PyDict([temperature_2m_max |-> Nums(<<10, 14>>)]), PyNone, PyNone))

\* An answer with a timestamp that is no ISO date.
WeatherBodyBadTime ==
    PyDict(DictOf({"hourly"},
                  HourlyBody(<<Aware(29), BadTime, Aware(40)>>, <<1000, 1000, 1000>>,
                             <<50, 50, 50>>),
                  PyNone, PyNone, PyNone))

WeatherBodies == { WeatherBodyFull, WeatherBodyNaive, WeatherBodyBadTime, PyList(<<>>) }

Failures == { Response(k, PyNone) : k \in {"client_error", "timeout", "bad_json"} }

WeatherResponses == Failures \cup { Response("ok", b) : b \in WeatherBodies }
GeoResponses == Failures \cup { Response("ok", b) : b \in GeoBodies }
SolarResponses == Failures \cup { Response("ok", b) : b \in SolarBodies }

(***************************************************************************)
(* forecast.get_forecast_data: asyncio.gather over the three adapters      *)
(***************************************************************************)
Unstarted == [st |-> "unstarted", val |-> PyDict(EmptyDict), exc |-> "none"]
Pending == [st |-> "pending", val |-> PyDict(EmptyDict), exc |-> "none"]

GathIdle == [st |-> "idle", outer |-> "pending", exc |-> "none", data |-> EmptyDict]

\* gather's outer future after a child has settled: the first exception of a
\* child is set on it at once (return_exceptions is False), the result once
\* every child has returned.
OuterAfter(g, ts, outcome) ==
    IF g.outer # "pending" THEN g
    ELSE IF outcome.st = "raised"
    THEN [g EXCEPT !.outer = "exception", !.exc = outcome.exc]
    ELSE IF \A a \in Adapters : ts[a].st = "returned"
    THEN [g EXCEPT !.outer = "result"]
    ELSE g

GatherQuiet == tasks = [a \in Adapters |-> Unstarted] /\ gath = GathIdle

\* get_forecast_data up to its await: gather wraps the three coroutines into
\* tasks, all of them scheduled before any runs.
StartGather ==
    /\ gath.st = "idle"
    /\ tasks' = [a \in Adapters |-> Pending]
    /\ gath' = [gath EXCEPT !.st = "waiting"]
    /\ UNCHANGED <<avars, bvars>>

Settle(a, outcome) ==
    /\ tasks[a].st = "pending"
    /\ tasks' = [tasks EXCEPT ![a] = outcome]
    /\ gath' = OuterAfter(gath, tasks', outcome)
    /\ UNCHANGED <<avars, bvars>>

OpenMeteoSettles == \E r \in WeatherResponses : Settle("open_meteo", get_open_meteo_data(r))
NoaaGeoSettles == \E r \in GeoResponses : Settle("noaa_geo", get_noaa_geo_data(r))
SolarSettles == \E r \in SolarResponses : Settle("solar", get_solar_activity_data(r))

\* get_forecast_data resumes once the outer future is done: it raises the
\* future's exception, or merges the three results.
GatherResumes ==
    /\ gath.st = "waiting"
    /\ gath.outer # "pending"
    /\ gath' = IF gath.outer = "exception"
               THEN [gath EXCEPT !.st = "raised"]
               ELSE LET m == MergeResults(tasks["open_meteo"].val, tasks["noaa_geo"].val,
                                          tasks["solar"].val) IN
                    [gath EXCEPT !.st = m.st, !.exc = m.exc, !.data = m.data]
    /\ UNCHANGED <<tasks, avars, bvars>>

(***************************************************************************)
(* The analysis as a state machine: one call on a drawn snapshot           *)
(***************************************************************************)
AnalysisIdle ==
    [done |-> FALSE, exc |-> "none", msg |-> NoMessage, risks |-> <<>>, reached |-> {}]

\* No call made yet: given is the dict handed to the first call.
NoCall ==
    [done |-> FALSE, given |-> EmptyDict, now |-> 0, exc |-> "none", msg |-> NoMessage,
     risks |-> <<>>]

AnalysisQuiet == snap = EmptyDict /\ anow = 0 /\ ares = AnalysisIdle /\ aprev = NoCall

\* A function that takes its input out of the dict: data.pop('geo_forecast', [])
\* where the source has data.get.
SnapshotPopped(data) == [k \in DOMAIN data \ {"geo_forecast"} |-> data[k]]

\* The dict data after a call: the function subscripts it, calls get on it and
\* iterates over its lists, and assigns to none of them; risks is a list of
\* its own, and it is that list which sort reorders.
SnapshotAfter(data) == data

OutcomeOf(r) ==
    [done |-> TRUE, exc |-> r.exc, msg |-> r.msg, risks |-> r.risks, reached |-> r.reached]

\* The first call on the snapshot.
Analyze ==
    /\ ~ares.done
    /\ ares' = OutcomeOf(analyze_data_and_form_message(snap, anow))
    /\ snap' = SnapshotAfter(snap)
    /\ aprev' = [NoCall EXCEPT !.given = snap]
    /\ UNCHANGED <<anow, gvars, bvars>>

\* A second call on the same dict, at the time now2.
AnalyzeAgain ==
    /\ ares.done /\ ~aprev.done
    /\ \E now2 \in NowSamples :
          /\ anow' = now2
          /\ ares' = OutcomeOf(analyze_data_and_form_message(snap, now2))
    /\ snap' = SnapshotAfter(snap)
    /\ aprev' = [done |-> TRUE, given |-> aprev.given, now |-> anow, exc |-> ares.exc,
                 msg |-> ares.msg, risks |-> ares.risks]
    /\ UNCHANGED <<gvars, bvars>>

(***************************************************************************)
(* database.py: the users table                                            *)
(***************************************************************************)
NumUsers == 2
Users == 1..NumUsers

\* What the geocoder and TimezoneFinder can answer for a place name.
Locations ==
    { [name |-> "London", lat |-> 51, lon |-> -1, tz |-> "Europe/London"],
      [name |-> "Berlin", lat |-> 52, lon |-> 13, tz |-> "Europe/Berlin"] }
NoLocation == [name |-> "", lat |-> 0, lon |-> 0, tz |-> ""]

\* The row of a user that is not in the table: what fetchone() gives as None.
NoUser ==
    [present |-> FALSE, user_id |-> 0, chat_id |-> 0, city |-> "", lat |-> 0, lon |-> 0,
     timezone |-> "", is_active |-> FALSE, notification_time |-> <<>>]

\* notification_time TEXT DEFAULT '08:00'
DefaultNotificationTime == <<"0", "8", ":", "0", "0">>

\* An upsert that rewrites the whole row, as INSERT OR REPLACE would.
add_or_update_user_replacing(tbl, user_id, chat_id, city, lat, lon, timezone) ==
    [tbl EXCEPT ![user_id] =
        [present |-> TRUE, user_id |-> user_id, chat_id |-> chat_id, city |-> city,
         lat |-> lat, lon |-> lon, timezone |-> timezone, is_active |-> TRUE,
         notification_time |-> DefaultNotificationTime]]

\* INSERT ... ON CONFLICT(user_id) DO UPDATE SET city, lat, lon, timezone,
\* is_active = 1: chat_id and notification_time of an existing row stay.
add_or_update_user(tbl, user_id, chat_id, city, lat, lon, timezone) ==
    IF tbl[user_id].present
    THEN [tbl EXCEPT ![user_id].city = city, ![user_id].lat = lat, ![user_id].lon = lon,
                     ![user_id].timezone = timezone, ![user_id].is_active = TRUE]
    ELSE [tbl EXCEPT ![user_id] =
            [present |-> TRUE, user_id |-> user_id, chat_id |-> chat_id, city |-> city,
             lat |-> lat, lon |-> lon, timezone |-> timezone, is_active |-> TRUE,
             notification_time |-> DefaultNotificationTime]]

\* UPDATE users SET is_active = ? WHERE user_id = ?: no row, no change.
set_user_active(tbl, user_id, is_active) ==
    IF tbl[user_id].present THEN [tbl EXCEPT ![user_id].is_active = is_active] ELSE tbl

\* UPDATE users SET notification_time = ? WHERE user_id = ?
update_user_notification_time(tbl, user_id, new_time) ==
    IF tbl[user_id].present THEN [tbl EXCEPT ![user_id].notification_time = new_time]
    ELSE tbl

\* SELECT * FROM users WHERE is_active = 1, in rowid (user_id) order.
RECURSIVE ActiveFrom(_, _)
ActiveFrom(tbl, u) ==
    IF u > NumUsers THEN <<>>
    ELSE IF tbl[u].present /\ tbl[u].is_active THEN <<tbl[u]>> \o ActiveFrom(tbl, u + 1)
    ELSE ActiveFrom(tbl, u + 1)

get_all_active_users(tbl) == ActiveFrom(tbl, 1)

get_user_by_id(tbl, user_id) == tbl[user_id]

(***************************************************************************)
(* Wall clock and time texts                                               *)
(***************************************************************************)
\* The instants the clock passes through, in minutes since midnight UTC:
\* 07:30, 08:00, 08:01, 09:00, 09:01.
ClockPoints == <<450, 480, 481, 540, 541>>

\* How many of these steps the clock takes.
MaxTicks == 2

\* How many updates the users send.
MaxCommands == 2

Digits == <<"0", "1", "2", "3", "4", "5", "6", "7", "8", "9">>

\* A text is the sequence of its characters.
IsDigit(c) == \E i \in 1..10 : Digits[i] = c
DigitVal(c) == (CHOOSE i \in 1..10 : Digits[i] = c) - 1
IsNumber(t) == Len(t) \in 1..2 /\ \A k \in 1..Len(t) : IsDigit(t[k])
NumberVal(t) == IF Len(t) = 1 THEN DigitVal(t[1]) ELSE 10 * DigitVal(t[1]) + DigitVal(t[2])

\* strftime('%H:%M') of a time of day given in minutes: both fields padded.
strftime_HM(minutes) ==
    LET h == (minutes \div 60) % 24
        m == minutes % 60
    IN  <<Digits[(h \div 10) + 1], Digits[(h % 10) + 1], ":",
          Digits[(m \div 10) + 1], Digits[(m % 10) + 1]>>

\* datetime.strptime(text, '%H:%M') succeeds: one or two digits of an hour
\* up to 23, a colon, one or two digits of a minute up to 59.
strptime_HM_ok(text) ==
    \E p \in 1..Len(text) :
        /\ text[p] = ":"
        /\ LET h == SubSeq(text, 1, p - 1)
               m == SubSeq(text, p + 1, Len(text))
           IN  /\ IsNumber(h) /\ NumberVal(h) <= 23
               /\ IsNumber(m) /\ NumberVal(m) <= 59

\* The texts a user sends while the bot waits for a time.
TimeTexts == { <<"0", "9", ":", "0", "0">>, <<"2", "5", ":", "0", "0">> }

\* pytz.timezone(name) and datetime.now(tz): the zone's offset to UTC in
\* minutes (winter time).
UtcOffset(tz) == IF tz = "Europe/Berlin" THEN 60 ELSE 0

LocalTime(clk, tz) == (clk + UtcOffset(tz)) % 1440

\* datetime.now() of the analysis, in hours since the midnight before last.
NowOf(clk) == 24 + (clk \div 60)

(***************************************************************************)
(* bot.py: one forecast run, send_forecast_to_user                         *)
(***************************************************************************)
\* The answers the providers give while the bot runs.
BotWeatherResponses ==
    { Response("client_error", PyNone), Response("ok", WeatherBodyFull),
      Response("ok", WeatherBodyBadTime) }

BotGeoResponses ==
    { Response("client_error", PyNone),
      Response("ok", GeoBodyOf(<<GeoRow(Naive(35), 50)>>)),
      Response("ok", PyList(<<Header, <<Aware(35), BadStr, "predicted">> >>)) }

BotSolarResponses ==
    { Response("client_error", PyNone),
      Response("ok", SolarSurgeBody) }

\* get_forecast_data seen from its caller: the exception of an adapter, or
\* the merged dict.
get_forecast_data(rw, rg, rs) ==
    LET w == get_open_meteo_data(rw)
        g == get_noaa_geo_data(rg)
        so == get_solar_activity_data(rs)
    IN  IF w.st = "raised" THEN [st |-> "raised", exc |-> w.exc, data |-> EmptyDict]
        ELSE IF g.st = "raised" THEN [st |-> "raised", exc |-> g.exc, data |-> EmptyDict]
        ELSE IF so.st = "raised" THEN [st |-> "raised", exc |-> so.exc, data |-> EmptyDict]
        ELSE MergeResults(w.val, g.val, so.val)

\* Lines 51 and 52 of a run: the text to send, or the exception met.
ForecastText(rw, rg, rs, clk) ==
    LET d == get_forecast_data(rw, rg, rs) IN
    IF d.st = "raised" THEN [exc |-> d.exc, msg |-> NoMessage]
    ELSE LET a == analyze_data_and_form_message(d.data, NowOf(clk)) IN
         [exc |-> a.exc, msg |-> a.msg]

\* The same, worked out once for every answer and every instant of the clock.
ForecastTexts ==
    [rw \in BotWeatherResponses, rg \in BotGeoResponses, rs \in BotSolarResponses,
     k \in 1..Len(ClockPoints) |-> ForecastText(rw, rg, rs, ClockPoints[k])]

ClockIndex(clk) == CHOOSE k \in 1..Len(ClockPoints) : ClockPoints[k] = clk

\* A run that does not look at the subscription.
SkipNobody(user) == FALSE

\* if not user or not user['is_active']: return
SkipUser(user) == ~user.present \/ ~user.is_active

\* except Exception around the fetch, the analysis and the delivery.
SendCatches(e) == TRUE

\* except Exception around one user of the scheduler's loop.
CycleCatches(e) == TRUE

\* user_local_time.strftime('%H:%M') == user['notification_time']
Due(row, clk) == strftime_HM(LocalTime(clk, row.timezone)) = row.notification_time

IsActive(user) == user.present /\ user.is_active

(***************************************************************************)
(* bot.py: state                                                           *)
(***************************************************************************)
FsmNone == [state |-> "none", city_info |-> NoLocation]

ReqIdle == [pc |-> "idle", entered |-> FALSE, saw |-> FALSE, handed |-> FALSE,
            msg |-> NoMessage]

SchedIdle == [pc |-> "idle", rows |-> <<>>, i |-> 0, saw |-> FALSE, msg |-> NoMessage,
              fired |-> -1]

NoCycle == [due |-> {}, attempted |-> {}, failed |-> {}, ticked |-> FALSE, open |-> FALSE]

LocationOf(user) ==
    IF user.present
    THEN [name |-> user.city, lat |-> user.lat, lon |-> user.lon, tz |-> user.timezone]
    ELSE NoLocation

\* The users who are subscribed and whose notification_time is the minute
\* that begins at clk.
SteadyAt(tbl, clk) == { u \in Users : IsActive(tbl[u]) /\ Due(tbl[u], clk) }

\* The history that fits a table found at start-up.  steady: the users whose
\* row has been active and due, unchanged, since the present minute began;
\* missed: the users for whom such a minute went by without a call of
\* send_forecast_to_user.
HistOf(tbl) ==
    [lastOp |-> [u \in Users |-> IF ~tbl[u].present THEN "none"
                                 ELSE IF tbl[u].is_active THEN "loc" ELSE "stop"],
     lastLoc |-> [u \in Users |-> LocationOf(tbl[u])],
     relocated |-> [u \in Users |-> FALSE],
     handedInactive |-> FALSE,
     reachedCycle |-> FALSE,
     cycle |-> NoCycle,
     steady |-> SteadyAt(tbl, ClockPoints[1]),
     missed |-> {}]

UserRow(u, loc, active, ntime) ==
    [present |-> TRUE, user_id |-> u, chat_id |-> u, city |-> loc.name, lat |-> loc.lat,
     lon |-> loc.lon, timezone |-> loc.tz, is_active |-> active,
     notification_time |-> ntime]

\* The times found in the rows at start-up: the default, and one that
\* process_new_time stored.
StoredTimes == { DefaultNotificationTime, <<"0", "7", ":", "3", "0">> }

\* The tables data/users.db holds when the bot starts: each user is unknown,
\* or subscribed in London.
StoredRows(u) ==
    {NoUser} \cup { UserRow(u, loc, TRUE, t) :
                        loc \in { l \in Locations : l.tz = "Europe/London" },
                        t \in StoredTimes }

BotQuiet ==
    /\ users = [u \in Users |-> NoUser]
    /\ fsm = [u \in Users |-> FsmNone]
    /\ clock = ClockPoints[1]
    /\ sched = SchedIdle
    /\ req = [u \in Users |-> ReqIdle]
    /\ hist = HistOf(users)
    /\ cmds = 0

(***************************************************************************)
(* bot.py: the handlers of the settings dialogue and of /stop              *)
(***************************************************************************)
\* if lat and lon and timezone
Truthy(found) == found.lat # 0 /\ found.lon # 0 /\ found.tz # ""

\* @dp.message(Command('stop'))
handle_stop(u) ==
    /\ users' = set_user_active(users, u, FALSE)
    /\ hist' = [hist EXCEPT !.lastOp[u] = "stop", !.steady = @ \ {u}]
    /\ UNCHANGED <<fsm, clock, sched, req, avars, gvars>>

\* @dp.message(F.text): every text that is no command and that the time
\* dialogue does not take.  found is the geocoder's answer.
handle_text_message(u, found) ==
    /\ fsm[u].state # "waiting_for_time"
    /\ fsm' = IF Truthy(found)
              THEN [fsm EXCEPT ![u] = [state |-> "waiting_for_city_confirmation",
                                       city_info |-> found]]
              ELSE fsm
    /\ UNCHANGED <<users, hist, clock, sched, req, avars, gvars>>

\* @dp.callback_query(waiting_for_city_confirmation, "confirm_city_...")
process_city_confirmation(u, action) ==
    /\ fsm[u].state = "waiting_for_city_confirmation"
    /\ LET city_info == fsm[u].city_info IN
       IF action = "yes"
       THEN /\ users' = add_or_update_user(users, u, u, city_info.name, city_info.lat,
                                           city_info.lon, city_info.tz)
            /\ hist' = [hist EXCEPT
                          !.lastOp[u] = "loc", !.lastLoc[u] = city_info,
                          !.steady = @ \ {u},
                          !.relocated[u] =
                              @ \/ (users[u].present
                                    /\ users[u].notification_time # DefaultNotificationTime)]
       ELSE UNCHANGED <<users, hist>>
    /\ fsm' = [fsm EXCEPT ![u] = FsmNone]
    /\ UNCHANGED <<clock, sched, req, avars, gvars>>

\* @dp.callback_query(F.data == "change_time"): set_state keeps the data.
process_change_time_callback(u) ==
    /\ fsm' = [fsm EXCEPT ![u].state = "waiting_for_time"]
    /\ UNCHANGED <<users, hist, clock, sched, req, avars, gvars>>

\* @dp.message(UserState.waiting_for_time, F.text)
process_new_time(u, text) ==
    /\ fsm[u].state = "waiting_for_time"
    /\ IF strptime_HM_ok(text)
       THEN /\ users' = update_user_notification_time(users, u, text)
            /\ fsm' = [fsm EXCEPT ![u] = FsmNone]
            /\ hist' = [hist EXCEPT !.steady = @ \ {u}]
       ELSE UNCHANGED <<users, fsm, hist>>
    /\ UNCHANGED <<clock, sched, req, avars, gvars>>

(***************************************************************************)
(* bot.py: /forecast_now                                                   *)
(***************************************************************************)
\* @dp.message(Command('forecast_now')) up to its first await: the ack is
\* being sent to an active subscriber; anybody else gets the hint to register.
handle_forecast_now(u) ==
    /\ req[u].pc \in {"idle", "done"}
    /\ LET user == get_user_by_id(users, u) IN
       req' = [req EXCEPT ![u] = IF user.present /\ user.is_active
                                 THEN [ReqIdle EXCEPT !.pc = "ack"]
                                 ELSE ReqIdle]
    /\ UNCHANGED <<users, fsm, hist, clock, sched, avars, gvars>>

\* message.answer returns (or raises: the handler ends there), and
\* send_forecast_to_user runs up to its await of get_forecast_data.
AckDone(u, ok) ==
    /\ req[u].pc = "ack"
    /\ LET user == get_user_by_id(users, u) IN
       req' = [req EXCEPT ![u] =
                 IF ~ok \/ SkipUser(user)
                 THEN [ReqIdle EXCEPT !.pc = "done"]
                 ELSE [ReqIdle EXCEPT !.pc = "fetch", !.entered = TRUE,
                                      !.saw = IsActive(user)]]
    /\ UNCHANGED <<users, fsm, hist, clock, sched, cmds, avars, gvars>>

\* get_forecast_data returns or raises; the text is composed and handed to
\* bot.send_message, or the exception ends the run.
ReqFetchDone(u, rw, rg, rs) ==
    /\ req[u].pc = "fetch"
    /\ LET ft == ForecastTexts[rw, rg, rs, ClockIndex(clock)] IN
       IF ft.exc = "none"
       THEN /\ req' = [req EXCEPT ![u].pc = "send", ![u].handed = TRUE, ![u].msg = ft.msg]
            /\ hist' = [hist EXCEPT !.handedInactive = @ \/ ~IsActive(users[u])]
       ELSE /\ req' = [req EXCEPT ![u].pc = "done"]
            /\ UNCHANGED hist
    /\ UNCHANGED <<users, fsm, clock, sched, cmds, avars, gvars>>

\* bot.send_message returns or raises.
ReqSendDone(u, ok) ==
    /\ req[u].pc = "send"
    /\ req' = [req EXCEPT ![u].pc = "done", ![u].msg = NoMessage]
    /\ UNCHANGED <<users, fsm, hist, clock, sched, cmds, avars, gvars>>

(***************************************************************************)
(* bot.py: the scheduler job scheduled_check_and_send                      *)
(***************************************************************************)
\* The for loop from row i on, up to the next await: a user whose local time
\* matches has send_forecast_to_user called, which returns at once for a user
\* it skips and otherwise suspends in the fetch.
RECURSIVE LoopFrom(_, _, _, _, _)
LoopFrom(rows, i, tbl, clk, attempted) ==
    IF i > Len(rows) THEN [i |-> i, attempted |-> attempted]
    ELSE IF Due(rows[i], clk)
    THEN IF SkipUser(get_user_by_id(tbl, rows[i].user_id))
         THEN LoopFrom(rows, i + 1, tbl, clk, attempted \cup {rows[i].user_id})
         ELSE [i |-> i, attempted |-> attempted \cup {rows[i].user_id}]
    ELSE LoopFrom(rows, i + 1, tbl, clk, attempted)

\* The job after the loop has gone on from row i.
SchedAfterLoop(rows, i, tbl, clk, fired) ==
    LET L == LoopFrom(rows, i, tbl, clk, hist.cycle.attempted) IN
    IF L.i > Len(rows) THEN [SchedIdle EXCEPT !.fired = fired]
    ELSE [pc |-> "fetch", rows |-> rows, i |-> L.i,
          saw |-> IsActive(tbl[rows[L.i].user_id]), msg |-> NoMessage, fired |-> fired]

CycleAfterLoop(cyc, rows, i, tbl, clk) ==
    LET L == LoopFrom(rows, i, tbl, clk, cyc.attempted) IN
    [cyc EXCEPT !.attempted = L.attempted, !.open = (L.i <= Len(rows))]

\* The cron trigger (hour='*', minute=0) of this minute has not started the
\* job yet; one instance of the job at a time.
TriggerPending == sched.pc = "idle" /\ clock % 60 = 0 /\ sched.fired # clock

\* The trigger starts the job.
SchedulerFires ==
    /\ TriggerPending
    /\ LET rows == get_all_active_users(users)
           cyc == [NoCycle EXCEPT
                     !.due = { rows[k].user_id : k \in { j \in 1..Len(rows) :
                                                          Due(rows[j], clock) } }]
           L == LoopFrom(rows, 1, users, clock, {})
       IN  /\ sched' = IF L.i > Len(rows) THEN [SchedIdle EXCEPT !.fired = clock]
                       ELSE [pc |-> "fetch", rows |-> rows, i |-> L.i,
                             saw |-> IsActive(users[rows[L.i].user_id]),
                             msg |-> NoMessage, fired |-> clock]
           /\ hist' = [hist EXCEPT !.cycle = [cyc EXCEPT !.attempted = L.attempted,
                                                         !.open = (L.i <= Len(rows))]]
    /\ UNCHANGED <<users, fsm, clock, req, cmds, avars, gvars>>

\* An exception e met by the run of the user of row i.
SchedException(e) ==
    LET uid == sched.rows[sched.i].user_id
        cyc == [hist.cycle EXCEPT !.failed = @ \cup {uid}]
    IN  IF SendCatches(e) \/ CycleCatches(e)
        THEN /\ sched' = SchedAfterLoop(sched.rows, sched.i + 1, users, clock, sched.fired)
             /\ hist' = [hist EXCEPT
                           !.reachedCycle = @ \/ ~SendCatches(e),
                           !.cycle = CycleAfterLoop(cyc, sched.rows, sched.i + 1, users,
                                                    clock)]
        ELSE /\ sched' = [sched EXCEPT !.pc = "crashed"]
             /\ hist' = [hist EXCEPT !.reachedCycle = TRUE,
                                     !.cycle = [cyc EXCEPT !.open = FALSE]]

SchedFetchDone(rw, rg, rs) ==
    /\ sched.pc = "fetch"
    /\ LET ft == ForecastTexts[rw, rg, rs, ClockIndex(clock)]
           uid == sched.rows[sched.i].user_id
       IN  IF ft.exc = "none"
           THEN /\ sched' = [sched EXCEPT !.pc = "send", !.msg = ft.msg]
                /\ hist' = [hist EXCEPT !.handedInactive = @ \/ ~IsActive(users[uid])]
           ELSE SchedException(ft.exc)
    /\ UNCHANGED <<users, fsm, clock, req, cmds, avars, gvars>>

SchedSendDone(ok) ==
    /\ sched.pc = "send"
    /\ IF ok
       THEN /\ sched' = SchedAfterLoop(sched.rows, sched.i + 1, users, clock, sched.fired)
            /\ hist' = [hist EXCEPT !.cycle = CycleAfterLoop(hist.cycle, sched.rows,
                                                             sched.i + 1, users, clock)]
       ELSE SchedException("TelegramAPIError")
    /\ UNCHANGED <<users, fsm, clock, req, cmds, avars, gvars>>

\* Time passes: the minute ends, after the trigger that falls into it.
Tick ==
    /\ ~TriggerPending
    /\ \E k \in 1..(Len(ClockPoints) - 1) :
          /\ k <= MaxTicks
          /\ clock = ClockPoints[k]
          /\ clock' = ClockPoints[k + 1]
    /\ hist' = [hist EXCEPT
                  !.cycle.ticked = @ \/ hist.cycle.open,
                  !.missed = @ \cup { u \in hist.steady :
                                         ~(sched.fired = clock
                                           /\ u \in hist.cycle.attempted) },
                  !.steady = SteadyAt(users, clock')]
    /\ UNCHANGED <<users, fsm, sched, req, cmds, avars, gvars>>

(***************************************************************************)
(* Specifications                                                          *)
(***************************************************************************)
\* An update sent by a user, counted.
Counted(A) == cmds < MaxCommands /\ cmds' = cmds + 1 /\ A

Uncounted(A) == A /\ UNCHANGED cmds

\* The bot from start-up, over a table left by earlier runs.
Init ==
    /\ AnalysisQuiet
    /\ GatherQuiet
    /\ users \in [Users -> UNION { StoredRows(u) : u \in Users }]
    /\ \A u \in Users : users[u] \in StoredRows(u)
    /\ fsm = [u \in Users |-> FsmNone]
    /\ clock = ClockPoints[1]
    /\ sched = SchedIdle
    /\ req = [u \in Users |-> ReqIdle]
    /\ hist = HistOf(users)
    /\ cmds = 0

Next ==
    \/ \E u \in Users : Counted(handle_stop(u))
    \/ \E u \in Users, found \in Locations \cup {NoLocation} :
          Counted(handle_text_message(u, found))
    \/ \E u \in Users, action \in {"yes", "no"} : Counted(process_city_confirmation(u, action))
    \/ \E u \in Users : Counted(process_change_time_callback(u))
    \/ \E u \in Users, text \in TimeTexts : Counted(process_new_time(u, text))
    \/ \E u \in Users : Counted(handle_forecast_now(u))
    \/ \E u \in Users, ok \in BOOLEAN : AckDone(u, ok)
    \/ \E u \in Users, rw \in BotWeatherResponses, rg \in BotGeoResponses,
          rs \in BotSolarResponses : ReqFetchDone(u, rw, rg, rs)
    \/ \E u \in Users, ok \in BOOLEAN : ReqSendDone(u, ok)
    \/ SchedulerFires
    \/ \E rw \in BotWeatherResponses, rg \in BotGeoResponses, rs \in BotSolarResponses :
          SchedFetchDone(rw, rg, rs)
    \/ \E ok \in BOOLEAN : SchedSendDone(ok)
    \/ Tick

Spec == Init /\ [][Next]_vars

\* The subscription dialogue alone, from an empty table.
InitSub == AnalysisQuiet /\ GatherQuiet /\ BotQuiet

NextSub ==
    \/ \E u \in Users : Uncounted(handle_stop(u))
    \/ \E u \in Users, found \in Locations \cup {NoLocation} :
          Uncounted(handle_text_message(u, found))
    \/ \E u \in Users, action \in {"yes", "no"} :
          Uncounted(process_city_confirmation(u, action))
    \/ \E u \in Users : Uncounted(process_change_time_callback(u))
    \/ \E u \in Users, text \in TimeTexts : Uncounted(process_new_time(u, text))

SpecSub == InitSub /\ [][NextSub]_vars

\* One call of get_forecast_data, task by task.
InitAggregate == AnalysisQuiet /\ BotQuiet /\ GatherQuiet

NextAggregate ==
    \/ StartGather
    \/ OpenMeteoSettles
    \/ NoaaGeoSettles
    \/ SolarSettles
    \/ GatherResumes

SpecAggregate == InitAggregate /\ [][NextAggregate]_vars

\* One call of analyze_data_and_form_message on any snapshot the three
\* adapters can have merged.
InitAnalyze ==
    /\ GatherQuiet
    /\ BotQuiet
    /\ \E w \in WeatherDicts, g \in GeoDicts, so \in SolarDicts :
          snap = Merge(Merge(w, g), so)
    /\ anow \in NowSamples
    /\ ares = AnalysisIdle
    /\ aprev = NoCall

NextAnalyze == Analyze

SpecAnalyze == InitAnalyze /\ [][NextAnalyze]_vars

\* Two calls on one snapshot.
NextTwice == Analyze \/ AnalyzeAgain

SpecTwice == InitAnalyze /\ [][NextTwice]_vars

\* One call on an hourly pressure series drawn row by row.
InitPressure ==
    /\ GatherQuiet
    /\ BotQuiet
    /\ \E n \in 0..MaxHourly :
          \E rows \in [1..n -> PressureHours \X PressureVals] :
             snap = [hourly |-> HourlyOfRows(rows)]
    /\ anow \in NowSamples
    /\ ares = AnalysisIdle
    /\ aprev = NoCall

SpecPressure == InitPressure /\ [][NextAnalyze]_vars
(***************************************************************************)
(* get_forecast_data: claims C1 and C7, under SpecAggregate                *)
(***************************************************************************)
Settled(a) == tasks[a].st \in {"returned", "raised"}

\* The keys an adapter that returned has put into its dict.
FieldsOf(a) == IF tasks[a].val.t = "dict" THEN DOMAIN tasks[a].val.v ELSE {}

\* C1: get_forecast_data never fails: whatever way the three adapters succeed
\* or fail, no exception reaches the caller, and the snapshot it returns holds
\* exactly the fields of the adapters that succeeded (empty when all failed).
C1_NeverFails ==
    /\ gath.st # "raised"
    /\ gath.st = "returned" => DOMAIN gath.data = UNION { FieldsOf(a) : a \in Adapters }

\* C7: get_forecast_data goes on, returning or raising to its caller, only
\* after all three adapter tasks have settled.
C7_JoinsAll ==
    gath.st \in {"returned", "raised"} => \A a \in Adapters : Settled(a)

(***************************************************************************)
(* analyze_data_and_form_message: claims C2 and C9, under SpecAnalyze      *)
(***************************************************************************)
AllRules == { Rules[i] : i \in 1..Len(Rules) }

\* C2: no exception leaves the evaluation of the five rules, and every rule
\* of the fixed order is evaluated whatever an earlier rule met.
C2_RulesContained ==
    ares.done => /\ ares.exc = "none"
                 /\ DOMAIN snap # {} => ares.reached = AllRules

RuleIndex(rule) == CHOOSE i \in 1..Len(Rules) : Rules[i] = rule

LineOf(risk) == [level |-> risk.level, rule |-> risk.rule, text |-> risk.text, n |-> risk.n]

\* C9: the lines of the message are the findings in descending severity,
\* findings of equal severity in the order of the rules, one line for each
\* finding; the title is that of the highest severity present; without
\* findings the message is the fixed neutral one.
C9_Composition ==
    (ares.done /\ ares.exc = "none" /\ DOMAIN snap # {}) =>
        IF ares.risks = <<>> THEN ares.msg = NeutralMessage
        ELSE LET lines == ares.msg.lines IN
             /\ ares.msg.kind = "report"
             /\ Len(lines) = Len(ares.risks)
             /\ \A k \in 1..Len(ares.risks) :
                   Cardinality({ i \in 1..Len(lines) : lines[i] = LineOf(ares.risks[k]) }) = 1
             /\ \A i, j \in 1..Len(lines) :
                   i < j => \/ RiskMap(lines[i].level) > RiskMap(lines[j].level)
                            \/ /\ RiskMap(lines[i].level) = RiskMap(lines[j].level)
                               /\ RuleIndex(lines[i].rule) < RuleIndex(lines[j].rule)
             /\ \A k \in 1..Len(ares.risks) :
                   RiskMap(ares.msg.title) >= RiskMap(ares.risks[k].level)
             /\ \E k \in 1..Len(ares.risks) : ares.msg.title = ares.risks[k].level

\* A message of at least three findings, two of them of one severity and one
\* found after a finding it outranks.
C9_Witness ==
    /\ ares.done /\ ares.exc = "none" /\ ares.msg.kind = "report"
    /\ Len(ares.risks) >= 3
    /\ \E i, j \in 1..Len(ares.risks) :
          i < j /\ ares.risks[i].level = ares.risks[j].level
    /\ \E i, j \in 1..Len(ares.risks) :
          i < j /\ RiskMap(ares.risks[i].level) < RiskMap(ares.risks[j].level)
(***************************************************************************)
(* The pressure rule: claim C10, under SpecPressure                        *)
(***************************************************************************)
\* The hourly rows of the snapshot and the two windows, taken row by row.
HourlyTimes == snap["hourly"].v["time"].v
HourlyPressures == snap["hourly"].v["surface_pressure"].v
PastRows == { i \in 1..Len(HourlyTimes) : anow - 24 <= HourlyTimes[i].h /\ HourlyTimes[i].h < anow }
FutureRows ==
    { i \in 1..Len(HourlyTimes) : anow <= HourlyTimes[i].h /\ HourlyTimes[i].h < anow + 24 }
PastPressures == { HourlyPressures[i].v : i \in PastRows }
FuturePressures == { HourlyPressures[i].v : i \in FutureRows }
MaxOf(S) == CHOOSE x \in S : \A y \in S : y <= x
MinOf(S) == CHOOSE x \in S : \A y \in S : x <= y

\* delta in millionths of mmHg.
DeltaMicro == (MaxOf(FuturePressures) - MinOf(PastPressures)) * HpaToMmHgMicro

PressureFindings == SelectSeq(ares.risks, LAMBDA r : r.rule = "pressure")

SeverityFound == IF PressureFindings = <<>> THEN "none" ELSE PressureFindings[1].level

\* The rule as the claim words it: High over 7 mmHg, Medium over 3, else nothing.
RuleOfThumb ==
    (ares.done /\ PastRows # {} /\ FutureRows # {}) =>
        /\ Len(PressureFindings) <= 1
        /\ SeverityFound = IF Abs(DeltaMicro) > 7000000 THEN "High"
                           ELSE IF Abs(DeltaMicro) > 3000000 THEN "Medium"
                           ELSE "none"

HighExample == Cardinality(PastRows) = 2 /\ PastPressures = {1000, 1008}
               /\ Cardinality(FutureRows) = 1 /\ FuturePressures = {1016}

BoundaryExample == Cardinality(PastRows) = 1 /\ PastPressures = {1000}
                   /\ Cardinality(FutureRows) = 1 /\ FuturePressures = {1004}

\* C10 as stated: with both windows non-empty the rule yields High if
\* |delta| > 7, else Medium if |delta| > 3, else nothing, where
\* delta = (max(future) - min(past)) * 0.750062; past [1000, 1008] with future
\* [1016] yields High, and past [1000] with future [1004] yields no finding.
C10_AsStated ==
    /\ RuleOfThumb
    /\ (ares.done /\ HighExample) => SeverityFound = "High"
    /\ (ares.done /\ BoundaryExample) => SeverityFound = "none"

\* C10 amended: the same rule and the same High example; past [1000] with
\* future [1004] has delta 3.000248 mmHg, which is over 3, and yields a
\* Medium finding.
C10_PressureRule ==
    /\ RuleOfThumb
    /\ (ares.done /\ HighExample) => SeverityFound = "High"
    /\ (ares.done /\ BoundaryExample) => SeverityFound = "Medium" /\ DeltaMicro = 3000248

\* The call on past [1000] and future [1004] has returned.
C10_Witness == ares.done /\ BoundaryExample /\ SeverityFound = "Medium"
(***************************************************************************)
(* The subscription: claim C6, under SpecSub                               *)
(***************************************************************************)
\* A user is active exactly when the later of their stored locations and
\* their /stop was a stored location, and the row holds the place stored last.
SubscriptionState ==
    \A u \in Users :
        /\ IsActive(users[u]) <=> hist.lastOp[u] = "loc"
        /\ users[u].present =>
              /\ hist.lastLoc[u] = [name |-> users[u].city, lat |-> users[u].lat,
                                    lon |-> users[u].lon, tz |-> users[u].timezone]
              /\ hist.lastLoc[u] \in Locations

\* The step is an accepted time of user u in the time dialogue.
TimeStep(u) == fsm[u].state = "waiting_for_time" /\ fsm'[u].state = "none"

\* A row's notification_time starts as the default and changes in no other
\* step than an accepted time.
TimeKept ==
    \A u \in Users :
        /\ (~users[u].present /\ users'[u].present) =>
              users'[u].notification_time = DefaultNotificationTime
        /\ (users[u].present /\ users'[u].notification_time # users[u].notification_time) =>
              TimeStep(u)
        /\ users[u].present => users'[u].present

\* C6: after any sequence of stored locations, /stop and time changes a user
\* is active exactly when the later of the first two was a stored location, a
\* stored location replaces city, coordinates and timezone, and the stored
\* notification_time is changed by nothing but a time change.
C6_Subscription == [](SubscriptionState) /\ [][TimeKept]_vars

\* A subscriber who chose a time of their own, then stored another place, and
\* is active with that time.
C6_Witness ==
    \E u \in Users :
        /\ hist.relocated[u]
        /\ IsActive(users[u])
        /\ users[u].notification_time # DefaultNotificationTime
(***************************************************************************)
(* The bot: claims C3, C4, C5 and C8, under Spec                           *)
(***************************************************************************)
\* C3: a /forecast_now request of an active subscriber whose run has entered
\* the fetch never ends without a composed text handed to the gateway.
C3_AlwaysAnswered ==
    \A u \in Users : (req[u].pc = "done" /\ req[u].entered) => req[u].handed

CycleClosed == sched.pc = "idle" /\ sched.fired >= 0 /\ ~hist.cycle.open

\* C4: no failure of a user's run leaves the scheduler's cycle, and in a cycle
\* in which a run failed every user due in that cycle still had their run
\* attempted.
C4_FailureIsolated ==
    /\ sched.pc # "crashed"
    /\ (CycleClosed /\ hist.cycle.failed # {}) =>
          hist.cycle.due \subseteq hist.cycle.attempted

\* C5 as stated: whenever a run hands a text to the gateway, the subscriber's
\* record exists and is active.
C5_AsStated == ~hist.handedInactive

\* C5 amended: a run fetches and hands a text to the gateway only if its
\* lookup of the subscriber, made when the run began, found the record present
\* and active; a run whose lookup finds the subscriber absent or inactive
\* fetches nothing and delivers nothing.
C5_LookupGuards ==
    /\ \A u \in Users : (req[u].pc \in {"fetch", "send"} \/ req[u].handed) => req[u].saw
    /\ sched.pc \in {"fetch", "send"} => sched.saw

\* A text is being delivered to a user who unsubscribed after the lookup.
C5_Witness ==
    \/ \E u \in Users : req[u].pc = "send" /\ req[u].saw /\ ~IsActive(users[u])
    \/ /\ sched.pc = "send" /\ sched.saw
       /\ ~IsActive(users[sched.rows[sched.i].user_id])

\* C8: in a cycle the runs of the due users are concurrent: while one user's
\* run waits for the network, the run of every other user due in the cycle
\* has started.
C8_RunsConcurrent ==
    sched.pc \in {"fetch", "send"} => hist.cycle.due \subseteq hist.cycle.attempted
(***************************************************************************)
(* The geomagnetic rule: claim C11, under SpecAnalyze                      *)
(***************************************************************************)
GeoEntries == IF "geo_forecast" \in DOMAIN snap THEN snap["geo_forecast"].v ELSE <<>>

\* Every entry carries a timestamp that can be compared with now.
GeoComparable == \A i \in 1..Len(GeoEntries) : GeoEntries[i].time_tag.fmt = "aware"

\* The Kp values, in tenths, of the entries stamped within the next 24 hours.
KpNext24h ==
    { GeoEntries[i].kp_value :
        i \in { j \in 1..Len(GeoEntries) :
                  anow <= GeoEntries[j].time_tag.h /\ GeoEntries[j].time_tag.h < anow + 24 } }

GeoFindings == SelectSeq(ares.risks, LAMBDA r : r.rule = "geomagnetic")

GeoSeverityFound == IF GeoFindings = <<>> THEN "none" ELSE GeoFindings[1].level

\* C11: the maximum Kp is taken over the entries stamped within the next 24
\* hours only; the rule yields High if it is at least 5, Medium if it is at
\* least 3, and nothing otherwise.
C11_GeoWindow ==
    (ares.done /\ ares.exc = "none" /\ GeoComparable) =>
        GeoSeverityFound = IF \E kp \in KpNext24h : kp >= 50 THEN "High"
                           ELSE IF \E kp \in KpNext24h : kp >= 30 THEN "Medium"
                           ELSE "none"
(***************************************************************************)
(* Two calls on one snapshot: claim C12, under SpecTwice                   *)
(***************************************************************************)
SameOutcome == ares.exc = aprev.exc /\ ares.risks = aprev.risks /\ ares.msg = aprev.msg

\* Each call leaves the dict it was handed as it was.
SnapshotUntouched == ares.done => snap = aprev.given

AcceptedTimes == { t \in StoredTimes \cup TimeTexts : strptime_HM_ok(t) }

\* C13: for every active user and every notification_time that
\* process_new_time accepts, minutes other than 00 included, a forecast run is
\* attempted for the user in the minute in which the user's local time equals
\* notification_time, also when earlier users of the cycle are slow: no minute
\* in which a subscribed user was due from its beginning to its end goes by
\* without send_forecast_to_user being called for that user.
C13_ReachesEverySubscriber ==
    /\ \A u \in Users : IsActive(users[u]) => users[u].notification_time \in AcceptedTimes
    /\ hist.missed = {}

====
